---- MODULE Spec2Model ----
(***************************************************************************)
(* Museum: the save pathway of the content entities (Event, Category,      *)
(* Exhibit) and the image normalisation (resize_image) it runs on every    *)
(* save, modelled from Museum/models.py and config/settings.py.            *)
(*                                                                         *)
(* An uploaded byte sequence is modelled by what a decoder makes of it     *)
(* (decodable / truncated / not an image, container format, colour mode,   *)
(* width, height); two byte sequences are equal iff their records are.     *)
(* Rational arithmetic of Image.thumbnail is done exactly on integers; the *)
(* one place where the library's floating point can differ from exact      *)
(* arithmetic (a tie between the two rounding candidates) is modelled as a *)
(* choice between both candidates.                                         *)
(***************************************************************************)
EXTENDS Integers, Sequences, FiniteSets, TLC

(* ---------------------------------------------------------------------- *)
(* Process-wide configuration (config/settings.py)                        *)
(* ---------------------------------------------------------------------- *)
MAX_IMAGE_WIDTH == 1920
MAX_IMAGE_HEIGHT == 1920
IMAGE_QUALITY == 85

(* ---------------------------------------------------------------------- *)
(* Bounds of the model                                                    *)
(* ---------------------------------------------------------------------- *)
\* small widths and heights of uploaded images: 1..MaxDim
MaxDim == 2
\* small policy bounds of a direct call of resize_image: 1..MaxBound
MaxBound == 2
\* number of distinct undecodable byte sequences
MaxCorrupt == 1
\* longest logical file name, in path components
MaxNameLen == 3
\* largest stored view counter
MaxViews == 1

\* sizes around the configured maximum, and the 3000x2000 upload
LargeSizes ==
    {<<MAX_IMAGE_WIDTH, MAX_IMAGE_HEIGHT>>, <<MAX_IMAGE_WIDTH + 1, 1>>,
     <<3000, 2000>>, <<2000, 3000>>}
\* the sizes of uploaded images
Sizes == ((1..MaxDim) \X (1..MaxDim)) \cup LargeSizes

Kinds == {"Event", "Category", "Exhibit"}

\* colour modes a decoder can report; "L" and "CMYK" stand for the modes that
\* are neither RGBA, LA, P nor RGB
Modes == {"RGBA", "LA", "P", "RGB", "L", "CMYK"}
\* the container formats of the uploads, with the modes each is uploaded in
FormatModes == [PNG |-> {"RGBA", "LA", "RGB"},
                JPEG |-> {"RGB", "L", "CMYK"},
                GIF |-> {"P"}]
Formats == DOMAIN FormatModes

(* ---------------------------------------------------------------------- *)
(* Byte sequences                                                         *)
(* ---------------------------------------------------------------------- *)
NoContent ==
    [decode |-> "none", format |-> "", mode |-> "", width |-> 0, height |-> 0,
     quality |-> 0, id |-> 0]

\* the bytes of an image file as uploaded
ImageBytes(f, m, w, h) ==
    [decode |-> "ok", format |-> f, mode |-> m, width |-> w, height |-> h,
     quality |-> 0, id |-> 0]

\* a file whose header decodes but whose pixel data is cut off
TruncatedBytes(f, m, w, h) ==
    [decode |-> "truncated", format |-> f, mode |-> m, width |-> w, height |-> h,
     quality |-> 0, id |-> 0]

\* a byte sequence that is no image at all
GarbageBytes(i) ==
    [decode |-> "invalid", format |-> "", mode |-> "", width |-> 0, height |-> 0,
     quality |-> 0, id |-> i]

DecodableUploads ==
    {c \in {ImageBytes(f, m, sz[1], sz[2]) : f \in Formats, m \in Modes, sz \in Sizes} :
        c.mode \in FormatModes[c.format]}

CorruptUploads ==
    {GarbageBytes(i) : i \in 1..MaxCorrupt}
        \cup {TruncatedBytes("PNG", m, 3000, 2000) : m \in {"RGBA", "RGB"}}

Uploads == DecodableUploads \cup CorruptUploads

(* ---------------------------------------------------------------------- *)
(* Normalisation policies                                                 *)
(* ---------------------------------------------------------------------- *)
NoPolicy == [max_width |-> 0, max_height |-> 0, quality |-> 0]

Policy(mw, mh, q) == [max_width |-> mw, max_height |-> mh, quality |-> q]

\* getattr(settings, "MAX_IMAGE_WIDTH", 1920) etc.
SettingsPolicy == Policy(MAX_IMAGE_WIDTH, MAX_IMAGE_HEIGHT, IMAGE_QUALITY)

\* the policies of a direct call of resize_image: small bounds at the lowest
\* quality, and the policy of the settings
CallPolicies ==
    {Policy(mw, mh, 1) : mw \in 1..MaxBound, mh \in 1..MaxBound}
        \cup {SettingsPolicy}

(* ---------------------------------------------------------------------- *)
(* Image.thumbnail (Pillow >= 9.1, the release that has Image.Resampling) *)
(* ---------------------------------------------------------------------- *)
Abs(n) == IF n < 0 THEN -n ELSE n

Max2(a, b) == IF a >= b THEN a ELSE b

\* math.floor(a / b) and math.ceil(a / b) for a >= 0, b > 0
FloorDiv(a, b) == a \div b
CeilDiv(a, b) == (a + b - 1) \div b

\* round_aspect for the branch x / y >= aspect: candidates for the new width
\* are floor and ceil of y * w / h, the key is abs(w / h - n / y), compared
\* here after multiplying by h * y
WidthCandidates(w, h, y) ==
    LET lo == FloorDiv(y * w, h)
        hi == CeilDiv(y * w, h)
        klo == Abs(w * y - lo * h)
        khi == Abs(w * y - hi * h)
    IN  IF klo < khi THEN {Max2(lo, 1)}
        ELSE IF khi < klo THEN {Max2(hi, 1)}
        ELSE {Max2(lo, 1), Max2(hi, 1)}

\* round_aspect for the other branch: candidates for the new height are floor
\* and ceil of x * h / w, the key is 0 for n = 0 and abs(w / h - x / n)
\* otherwise, compared here after multiplying by h * lo * hi
HeightCandidates(w, h, x) ==
    LET lo == FloorDiv(x * h, w)
        hi == CeilDiv(x * h, w)
        klo == Abs(w * lo - x * h) * hi
        khi == Abs(w * hi - x * h) * lo
    IN  IF lo = 0 THEN {1}
        ELSE IF klo < khi THEN {lo}
        ELSE IF khi < klo THEN {hi}
        ELSE {lo, hi}

Min2(a, b) == IF a <= b THEN a ELSE b

\* a resize that clamps each side on its own
ThumbnailClamp(w, h, x, y) == {<<Min2(w, x), Min2(h, y)>>}

\* the sizes img.thumbnail((x, y)) can leave an image of size w x h with
ThumbnailSizes(w, h, x, y) ==
    IF x >= w /\ y >= h THEN {<<w, h>>}
    ELSE IF x * h >= w * y
         THEN {<<nx, y>> : nx \in WidthCandidates(w, h, y)}
         ELSE {<<x, ny>> : ny \in HeightCandidates(w, h, x)}

(* ---------------------------------------------------------------------- *)
(* The image attribute of an entity (a FieldFile): logical file name, the *)
(* bytes it refers to, and whether they are committed to storage          *)
(* ---------------------------------------------------------------------- *)
\* the attribute with no file: bool(image_field) is False
AbsentImage == [name |-> <<>>, content |-> NoContent, committed |-> TRUE]

\* a file assigned to the attribute and not yet stored
FreshUpload(bytes) == [name |-> <<"upload.png">>, content |-> bytes, committed |-> FALSE]

\* `not image_field`
IsAbsent(image_field) == image_field.name = <<>>

\* upload_to of the ImageField of each model
UploadTo(kind) ==
    CASE kind = "Event" -> "media/event"
      [] kind = "Category" -> "media/category"
      [] kind = "Exhibit" -> "media/exhibit_images"

\* image_field.save(image_field.name, ContentFile(...), save=False): the bytes
\* are stored under upload_to joined with the given name, the attribute
\* refers to the stored file
FieldFileSave(image_field, upload_to, bytes) ==
    [name |-> <<upload_to>> \o image_field.name, content |-> bytes, committed |-> TRUE]

(* ---------------------------------------------------------------------- *)
(* resize_image                                                            *)
(* ---------------------------------------------------------------------- *)
Outcome(image_field, ops, raised) ==
    [image |-> image_field, ops |-> ops, raised |-> raised]

\* the mask of background.paste: the alpha band for RGBA, None otherwise
PasteMask(mode) == IF mode = "RGBA" THEN "alpha" ELSE "none"

\* the colour-mode step without its second branch
ConvertModeNoElif(mode) ==
    IF mode \in {"RGBA", "LA", "P"} THEN "RGB" ELSE mode

\* the colour-mode step: the mode of img after it
ConvertMode(mode) ==
    IF mode \in {"RGBA", "LA", "P"} THEN "RGB"
    ELSE IF mode # "RGB" THEN "RGB"
    ELSE mode

\* what the colour-mode step does, for the record of the call
ConvertOps(mode) ==
    IF mode \in {"RGBA", "LA", "P"} THEN <<"composite", PasteMask(mode)>>
    ELSE IF mode # "RGB" THEN <<"convert">>
    ELSE <<>>

\* the size test with `and` for `or`
NeedsResizeBoth(w, h, max_width, max_height) == w > max_width /\ h > max_height

\* `img.width > max_width or img.height > max_height`
NeedsResize(w, h, max_width, max_height) == w > max_width \/ h > max_height

\* a bounding step that scales every image to fill the box, small ones too
BoundingStepFit(w, h, max_width, max_height) ==
    IF max_width * h <= max_height * w
    THEN {<<max_width, Max2(FloorDiv(h * max_width, w), 1)>>}
    ELSE {<<Max2(FloorDiv(w * max_height, h), 1), max_height>>}

\* a bounding step that halves an oversized image once
BoundingStepHalve(w, h, max_width, max_height) ==
    IF w > max_width \/ h > max_height
    THEN {<<CeilDiv(w, 2), CeilDiv(h, 2)>>}
    ELSE {<<w, h>>}

\* the bounding step: the sizes img can have after it
BoundingStep(w, h, max_width, max_height) ==
    IF NeedsResize(w, h, max_width, max_height)
    THEN ThumbnailSizes(w, h, max_width, max_height)
    ELSE {<<w, h>>}

BoundingOps(w, h, max_width, max_height) ==
    IF NeedsResize(w, h, max_width, max_height) THEN <<"thumbnail">> ELSE <<>>

\* modes the JPEG encoder accepts; img.save raises for the others
JpegWritable(mode) == mode \in {"RGB", "L", "CMYK"}

\* img.save(output, format="JPEG", quality=quality, optimize=True)
EncodeJpeg(mode, size, quality) ==
    [decode |-> "ok", format |-> "JPEG", mode |-> mode, width |-> size[1],
     height |-> size[2], quality |-> quality, id |-> 0]

\* a handler that lets the exception through
ExceptHandlerReraise(image_field, ops) == Outcome(image_field, ops, TRUE)

\* a handler that drops the file it could not process
ExceptHandlerClears(image_field, ops) == Outcome(AbsentImage, ops, FALSE)

\* `except Exception: pass`: the attribute keeps the original and the call
\* returns normally
ExceptHandler(image_field, ops) == Outcome(image_field, ops, FALSE)

\* a resize_image without its first test
NoImageFieldNever(image_field) == FALSE

\* `if not image_field: return`
NoImageField(image_field) == IsAbsent(image_field)

\* The outcomes of resize_image(image_field, max_width, max_height, quality).
\* fault: the encoder raises (MemoryError, OSError) although the image is
\* sound.  ops is the record of the steps the call performed.
resize_image(image_field, upload_to, max_width, max_height, quality, fault) ==
    IF NoImageField(image_field) THEN {Outcome(image_field, <<>>, FALSE)}
    ELSE
      LET c == image_field.content IN
      IF c.decode \notin {"ok", "truncated"} THEN {ExceptHandler(image_field, <<"open">>)}
      ELSE IF c.decode = "truncated" THEN {ExceptHandler(image_field, <<"open", "load">>)}
      ELSE
        LET mode == ConvertMode(c.mode)
            pre == <<"open">> \o ConvertOps(c.mode)
                      \o BoundingOps(c.width, c.height, max_width, max_height)
                      \o <<"encode">>
        IN  IF fault \/ ~JpegWritable(mode) THEN {ExceptHandler(image_field, pre)}
            ELSE {Outcome(FieldFileSave(image_field, upload_to,
                                        EncodeJpeg(mode, size, quality)),
                          pre \o <<"write">>, FALSE) :
                    size \in BoundingStep(c.width, c.height, max_width, max_height)}

(* ---------------------------------------------------------------------- *)
(* Model.save of the framework, as the save methods use it                *)
(* ---------------------------------------------------------------------- *)
\* update_fields: None, or a collection of field names
NoUpdateFields == [given |-> FALSE, fields |-> {}]
UpdateFields(fs) == [given |-> TRUE, fields |-> fs]

\* the field f is written by a save with these update_fields
Writes(update_fields, f) == ~update_fields.given \/ f \in update_fields.fields

\* the value an in-memory view_count stores into a row whose counter is
\* stored: a plain number, or the expression F("view_count") + 1
NoRow == [exists |-> FALSE, image |-> AbsentImage, view_count |-> 0]
StoredCount(view_count, row) ==
    IF view_count.f THEN row.view_count + 1 ELSE view_count.n

\* an increment done in memory: self.view_count += 1
IncrementInMemory(view_count) == [f |-> FALSE, n |-> view_count.n + 1]

\* `self.view_count = models.F("view_count") + 1`
IncrementExpr(view_count) == [f |-> TRUE, n |-> 0]

\* super().save(*args, **kwargs): an empty update_fields returns at once;
\* otherwise the written fields go to the row, an uncommitted file of a
\* written image field being stored first (pre_save)
SuperSave(self, row, update_fields) ==
    IF update_fields.given /\ update_fields.fields = {}
    THEN [obj |-> self, db |-> row]
    ELSE
      LET image1 ==
              IF Writes(update_fields, "image") /\ ~IsAbsent(self.image)
                    /\ ~self.image.committed
              THEN FieldFileSave(self.image, UploadTo(self.kind), self.image.content)
              ELSE self.image
      IN  [obj |-> [self EXCEPT !.image = image1, !.pk = TRUE],
           db |-> [exists |-> TRUE,
                   image |-> IF Writes(update_fields, "image") THEN image1 ELSE row.image,
                   view_count |-> IF Writes(update_fields, "view_count")
                                  THEN StoredCount(self.view_count, row)
                                  ELSE row.view_count]]

(* ---------------------------------------------------------------------- *)
(* The save methods                                                       *)
(* ---------------------------------------------------------------------- *)
SaveOutcome(self, row, ops, raised, policy) ==
    [obj |-> self, db |-> row, ops |-> ops, raised |-> raised, policy |-> policy]

\* the two steps in the other order: the row is written first
SaveThenResize(self, row, update_fields, fault) ==
    LET s == SuperSave(self, row, update_fields)
    IN  IF ~IsAbsent(s.obj.image)
        THEN {SaveOutcome([s.obj EXCEPT !.image = r.image], s.db,
                          <<"super_save", "resize_image">> \o r.ops, r.raised,
                          SettingsPolicy) :
                r \in resize_image(s.obj.image, UploadTo(self.kind),
                                   SettingsPolicy.max_width, SettingsPolicy.max_height,
                                   SettingsPolicy.quality, fault)}
        ELSE {SaveOutcome(s.obj, s.db, <<"super_save">>, FALSE, NoPolicy)}

\* `if self.image: ... resize_image(self.image, max_width, max_height,
\* quality)` followed by `super().save(*args, **kwargs)`; an exception out of
\* resize_image would leave the method before super().save
ResizeThenSave(self, row, update_fields, fault) ==
    IF ~IsAbsent(self.image)
    THEN {IF r.raised
          THEN SaveOutcome([self EXCEPT !.image = r.image], row,
                           <<"resize_image">> \o r.ops, TRUE, SettingsPolicy)
          ELSE LET s == SuperSave([self EXCEPT !.image = r.image], row, update_fields)
               IN  SaveOutcome(s.obj, s.db,
                               <<"resize_image">> \o r.ops \o <<"super_save">>,
                               FALSE, SettingsPolicy) :
            r \in resize_image(self.image, UploadTo(self.kind),
                               SettingsPolicy.max_width, SettingsPolicy.max_height,
                               SettingsPolicy.quality, fault)}
    ELSE LET s == SuperSave(self, row, update_fields)
         IN  {SaveOutcome(s.obj, s.db, <<"super_save">>, FALSE, NoPolicy)}

\* the test without the length
OnlyViewCountAnyLen(update_fields) ==
    /\ update_fields.given
    /\ update_fields.fields # {}
    /\ "view_count" \in update_fields.fields

\* the test with a wrong length
OnlyViewCountLonger(update_fields) ==
    /\ update_fields.given
    /\ update_fields.fields # {}
    /\ "view_count" \in update_fields.fields
    /\ Cardinality(update_fields.fields) > 1

\* `update_fields and "view_count" in update_fields and len(update_fields) == 1`
OnlyViewCount(update_fields) ==
    /\ update_fields.given
    /\ update_fields.fields # {}
    /\ "view_count" \in update_fields.fields
    /\ Cardinality(update_fields.fields) = 1

\* Exhibit.save
ExhibitSaveOutcomes(self, row, update_fields, fault) ==
    IF OnlyViewCount(update_fields)
    THEN LET s == SuperSave(self, row, update_fields)
         IN  {SaveOutcome(s.obj, s.db, <<"super_save">>, FALSE, NoPolicy)}
    ELSE ResizeThenSave(self, row, update_fields, fault)

(* ---------------------------------------------------------------------- *)
(* State                                                                  *)
(* ---------------------------------------------------------------------- *)
VARIABLES
    obj,    \* the entity in memory: kind, image attribute, pk set, view_count
    db,     \* its stored row
    norm,   \* the policy that produced obj.image by a completed normalisation
    last,   \* record of the last operation: what it was called with and did
    tables, \* the stored rows of the three models, and the last primary keys
    response, \* what the last request, query or command returned
    made,   \* per category, the number of exhibits created in it
    stored, \* the stored view_count of one exhibit
    copies, \* the in-memory copies of that exhibit, one per request
    tally   \* the calls completed on the copies

saveVars == <<obj, db, norm, last>>
siteVars == <<tables, response, made>>
counterVars == <<stored, copies, tally>>
vars == <<obj, db, norm, last, tables, response, made, stored, copies, tally>>

\* the database before anything is stored
EmptyTables ==
    [categories |-> {}, events |-> {}, exhibits |-> {},
     seq |-> [Category |-> 0, Event |-> 0, Exhibit |-> 0]]

NoResponse ==
    [op |-> "none", status |-> 0, error |-> "", pk |-> 0, categories |-> {},
     events |-> {}, exhibits |-> {}, count |-> 0, empty_before |-> FALSE]

\* no site is modelled: the tables stay empty
SiteIdle == tables = EmptyTables /\ response = NoResponse /\ made = <<>>

\* no exhibit is shared: there are no copies
CounterIdle ==
    /\ stored = 0
    /\ copies = <<>>
    /\ tally = [start |-> 0, started |-> 0, incs |-> 0, fulls |-> 0]

Files == {AbsentImage} \cup {FreshUpload(b) : b \in Uploads}

NewEntity(kind, file) ==
    [kind |-> kind, image |-> file, pk |-> FALSE, view_count |-> [f |-> FALSE, n |-> 0]]

OpRecord(op, update_fields, policy, ops, raised) ==
    [op |-> op, update_fields |-> update_fields, policy |-> policy,
     before |-> obj.image, before_norm |-> norm, ops |-> ops, raised |-> raised]

\* what the image of an existing entity is replaced with: no file, or a new
\* upload that is not an image
ReplacementFiles == {AbsentImage, FreshUpload(GarbageBytes(1))}

\* Event(...), Category(...), Exhibit(...): a new entity, not yet saved
Init ==
    /\ \E kind \in Kinds, file \in Files : obj = NewEntity(kind, file)
    /\ db = NoRow
    /\ norm = NoPolicy
    /\ last = [op |-> "init", update_fields |-> NoUpdateFields, policy |-> NoPolicy,
               before |-> AbsentImage, before_norm |-> NoPolicy,
               ops |-> <<>>, raised |-> FALSE]
    /\ SiteIdle
    /\ CounterIdle

\* field names a caller can pass as update_fields of a model
FieldNames(kind) ==
    IF kind = "Exhibit" THEN {"title", "image", "view_count"} ELSE {"title", "image"}

UpdateFieldChoices(kind) ==
    {NoUpdateFields} \cup {UpdateFields(fs) : fs \in SUBSET FieldNames(kind)}

\* the file name can take one more upload_to component
NameFits(image_field) == IsAbsent(image_field) \/ Len(image_field.name) < MaxNameLen

\* a call is made with update_fields only on an entity that has a row
CanSave(update_fields) ==
    /\ NameFits(obj.image)
    /\ (update_fields.given /\ update_fields.fields # {}) => obj.pk
    /\ (Writes(update_fields, "view_count") /\ obj.view_count.f)
          => db.view_count < MaxViews

\* the policy that produced the image the operation leaves
NormAfter(ops, policy) == IF "write" \in {ops[i] : i \in DOMAIN ops} THEN policy ELSE norm

Finish(op, update_fields, out) ==
    /\ obj' = out.obj
    /\ db' = out.db
    /\ norm' = NormAfter(out.ops, out.policy)
    /\ last' = OpRecord(op, update_fields, out.policy, out.ops, out.raised)
    /\ UNCHANGED <<siteVars, counterVars>>

\* entity.image = file, on an entity that has a row
AssignImage(file) ==
    /\ obj.pk
    /\ obj' = [obj EXCEPT !.image = file]
    /\ norm' = NoPolicy
    /\ last' = OpRecord("assign", NoUpdateFields, NoPolicy, <<>>, FALSE)
    /\ UNCHANGED <<db, siteVars, counterVars>>

EventSave(update_fields, fault) ==
    /\ obj.kind = "Event"
    /\ CanSave(update_fields)
    /\ \E out \in ResizeThenSave(obj, db, update_fields, fault) :
          Finish("save", update_fields, out)

CategorySave(update_fields, fault) ==
    /\ obj.kind = "Category"
    /\ CanSave(update_fields)
    /\ \E out \in ResizeThenSave(obj, db, update_fields, fault) :
          Finish("save", update_fields, out)

ExhibitSave(update_fields, fault) ==
    /\ obj.kind = "Exhibit"
    /\ CanSave(update_fields)
    /\ \E out \in ExhibitSaveOutcomes(obj, db, update_fields, fault) :
          Finish("save", update_fields, out)

\* Exhibit.increment_view_count
IncrementViewCount ==
    /\ obj.kind = "Exhibit"
    /\ obj.pk
    /\ db.view_count < MaxViews
    /\ LET self == [obj EXCEPT !.view_count = IncrementExpr(obj.view_count)]
       IN  \E out \in ExhibitSaveOutcomes(self, db, UpdateFields({"view_count"}), FALSE) :
              Finish("increment_view_count", UpdateFields({"view_count"}), out)

\* resize_image(entity.image, max_width, max_height, quality) with any policy
CallResizeImage(policy, fault) ==
    /\ NameFits(obj.image)
    /\ \E r \in resize_image(obj.image, UploadTo(obj.kind), policy.max_width,
                             policy.max_height, policy.quality, fault) :
          /\ obj' = [obj EXCEPT !.image = r.image]
          /\ norm' = NormAfter(r.ops, policy)
          /\ last' = OpRecord("resize_image", NoUpdateFields, policy, r.ops, r.raised)
          /\ UNCHANGED <<db, siteVars, counterVars>>

Next ==
    \/ \E file \in ReplacementFiles : AssignImage(file)
    \/ \E uf \in UpdateFieldChoices("Event"), fault \in BOOLEAN : EventSave(uf, fault)
    \/ \E uf \in UpdateFieldChoices("Category"), fault \in BOOLEAN : CategorySave(uf, fault)
    \/ \E uf \in UpdateFieldChoices("Exhibit"), fault \in BOOLEAN : ExhibitSave(uf, fault)
    \/ IncrementViewCount
    \/ \E policy \in CallPolicies, fault \in BOOLEAN : CallResizeImage(policy, fault)

Spec == Init /\ [][Next]_vars

(* ---------------------------------------------------------------------- *)
(* The stored site: rows of the three models, the views, populate_db      *)
(* ---------------------------------------------------------------------- *)
\* at most this many rows per table are created one by one
MaxRows == 2

\* no primary key beyond this one is handed out to a category or an exhibit
MaxPk == 3

\* the image the tests upload
create_test_image == FreshUpload(ImageBytes("JPEG", "RGB", 100, 100))

\* get_dummy_image: an RGB PNG of the given size named "<image_type>.png"
get_dummy_image(image_type, size) ==
    [name |-> <<image_type \o ".png">>,
     content |-> ImageBytes("PNG", "RGB", size[1], size[2]),
     committed |-> FALSE]

TableOf(kind) ==
    CASE kind = "Category" -> "categories"
      [] kind = "Event" -> "events"
      [] kind = "Exhibit" -> "exhibits"

\* title and slug are each unique=True
UniqueViolation(categories, fields) ==
    \E c \in categories : c.title = fields.title \/ c.slug = fields.slug

\* Exhibit.category is a ForeignKey: its value is the pk of a stored category
ForeignKeyViolation(categories, fields) ==
    ~\E c \in categories : c.pk = fields.category

\* Model.objects.create(**fields): the instance is built and saved through
\* its save method; the INSERT fails on a duplicate title or slug, and on
\* a category that is not stored
ObjectsCreate(t, kind, fields, file) ==
    LET self == NewEntity(kind, file)
        outs == IF kind = "Exhibit"
                THEN ExhibitSaveOutcomes(self, NoRow, NoUpdateFields, FALSE)
                ELSE ResizeThenSave(self, NoRow, NoUpdateFields, FALSE)
        pk == t.seq[kind] + 1
        stored_fields(out) ==
            IF kind = "Exhibit"
            THEN [pk |-> pk, image |-> out.db.image, view_count |-> out.db.view_count]
            ELSE [pk |-> pk, image |-> out.db.image]
    IN  {IF out.raised
         THEN [tables |-> t, error |-> "Exception", pk |-> 0]
         ELSE IF kind = "Category" /\ UniqueViolation(t.categories, fields)
         THEN [tables |-> t, error |-> "IntegrityError", pk |-> 0]
         ELSE IF kind = "Exhibit" /\ ForeignKeyViolation(t.categories, fields)
         THEN [tables |-> t, error |-> "IntegrityError", pk |-> 0]
         ELSE [tables |-> [t EXCEPT ![TableOf(kind)] = @ \cup {fields @@ stored_fields(out)},
                                    !.seq[kind] = pk],
               error |-> "", pk |-> pk] :
            out \in outs}

\* a SlugField without a default is the empty string when none is given
DefaultSlug == ""

\* a BooleanField(default=True)
DefaultIsActive == TRUE

\* every event, whatever is_active
AllEvents(events) == {e.pk : e \in events}

\* Event.objects.filter(is_active=True)
ActiveEvents(events) == {e.pk : e \in {x \in events : x.is_active}}

\* the view main: all categories, the active events
main(t) ==
    [NoResponse EXCEPT !.op = "main", !.status = 200,
                       !.categories = {c.pk : c \in t.categories},
                       !.events = ActiveEvents(t.events)]

\* a lookup that never fails
DoesNotExistNever(categories, pk) == FALSE

\* get_object_or_404(Category, pk=pk) raises Http404 when no row has the pk
DoesNotExist(categories, pk) == ~\E c \in categories : c.pk = pk

\* the filter on the exhibit's own primary key
ExhibitsOfPk(exhibits, pk) == {x.pk : x \in {y \in exhibits : y.pk = pk}}

\* Exhibit.objects.filter(category=pk)
ExhibitsOfCategory(exhibits, pk) == {x.pk : x \in {y \in exhibits : y.category = pk}}

\* the view exhibits: Http404 leaves the view through the except clauses that
\* re-raise it; otherwise the category and its exhibits are rendered
exhibits(t, pk) ==
    IF DoesNotExist(t.categories, pk)
    THEN [NoResponse EXCEPT !.op = "exhibits", !.status = 404,
                            !.error = "Http404", !.pk = pk]
    ELSE [NoResponse EXCEPT !.op = "exhibits", !.status = 200, !.pk = pk,
                            !.categories = {pk},
                            !.exhibits = ExhibitsOfCategory(t.exhibits, pk)]

\* a manager over every exhibit
UnrelatedExhibits(all_exhibits, pk) == all_exhibits

\* category.exhibits, the reverse side of Exhibit.category
RelatedExhibits(all_exhibits, pk) == {x \in all_exhibits : x.category = pk}

\* `return self.exhibits.count()`
get_exhibits_count(t, pk) == Cardinality(RelatedExhibits(t.exhibits, pk))

\* populate_db: the lists handle iterates over
category_names == <<"Art", "History", "Science", "Nature", "Technology">>
NumDemoEvents == 5
exhibit_titles ==
    <<"Dinosaur Fossil", "Ancient Sculpture", "Space Shuttle Model",
      "Impressionist Painting", "Medieval Armor">>

\* the creations of handle in program order
HandleSteps ==
    [i \in 1..Len(category_names) |-> [kind |-> "Category", title |-> category_names[i]]]
        \o [i \in 1..NumDemoEvents |-> [kind |-> "Event", title |-> ""]]
        \o [i \in 1..Len(exhibit_titles) |-> [kind |-> "Exhibit", title |-> exhibit_titles[i]]]

\* one creation of handle, from a state of the command: its tables, the
\* categories it has appended to its list, and the exception that ended it.
\* Category.objects.create gets a title and an image and no slug;
\* the exhibit's category is random.choice(categories)
HandleStep(s, step) ==
    IF s.error # ""
    THEN {s}
    ELSE CASE step.kind = "Category" ->
                {[tables |-> r.tables, error |-> r.error,
                  categories |-> IF r.error = "" THEN s.categories \cup {r.pk}
                                 ELSE s.categories] :
                    r \in ObjectsCreate(s.tables, "Category",
                                        [title |-> step.title, slug |-> DefaultSlug],
                                        get_dummy_image("category", <<400, 300>>))}
           [] step.kind = "Event" ->
                {[tables |-> r.tables, error |-> r.error, categories |-> s.categories] :
                    r \in ObjectsCreate(s.tables, "Event",
                                        [is_active |-> DefaultIsActive],
                                        get_dummy_image("event", <<600, 400>>))}
           [] step.kind = "Exhibit" ->
                UNION {{[tables |-> r.tables, error |-> r.error,
                         categories |-> s.categories] :
                          r \in ObjectsCreate(s.tables, "Exhibit", [category |-> c],
                                              get_dummy_image("exhibit", <<800, 600>>))} :
                        c \in s.categories}

RECURSIVE RunSteps(_, _)
RunSteps(S, steps) ==
    IF steps = <<>>
    THEN S
    ELSE RunSteps(UNION {HandleStep(s, Head(steps)) : s \in S}, Tail(steps))

\* Command.handle: the outcomes of the whole command on the tables t
handle(t) == RunSteps({[tables |-> t, error |-> "", categories |-> {}]}, HandleSteps)

\* the inputs of the creations done one by one
Titles == {"Test Category", "Other Category"}
Slugs == {"test-category", "other-category", DefaultSlug}

IsEmpty(t) == t.categories = {} /\ t.events = {} /\ t.exhibits = {}

\* the exhibits per category after the tables became t
MadeAfter(t) ==
    [pk \in {c.pk : c \in t.categories} |->
        (IF pk \in DOMAIN made THEN made[pk] ELSE 0)
            + Cardinality({x \in t.exhibits \ tables.exhibits : x.category = pk})]

Created(r) ==
    /\ tables' = r.tables
    /\ made' = MadeAfter(r.tables)
    /\ response' = [NoResponse EXCEPT !.op = "create", !.error = r.error, !.pk = r.pk]
    /\ UNCHANGED <<saveVars, counterVars>>

EventCreate ==
    /\ Cardinality(tables.events) < MaxRows
    /\ \E is_active \in BOOLEAN :
         \E r \in ObjectsCreate(tables, "Event", [is_active |-> is_active],
                                create_test_image) :
            Created(r)

CategoryCreate ==
    /\ Cardinality(tables.categories) < MaxRows
    /\ tables.seq.Category < MaxPk
    /\ \E title \in Titles, slug \in Slugs :
         \E r \in ObjectsCreate(tables, "Category", [title |-> title, slug |-> slug],
                                create_test_image) :
            Created(r)

\* an exhibit for any category pk handed out so far, still stored or not
ExhibitCreate ==
    /\ Cardinality(tables.exhibits) < MaxRows
    /\ tables.seq.Exhibit < MaxPk
    /\ \E c \in 1..tables.seq.Category :
         \E r \in ObjectsCreate(tables, "Exhibit", [category |-> c],
                                create_test_image) :
            Created(r)

MainView ==
    /\ response' = main(tables)
    /\ UNCHANGED <<tables, made, saveVars, counterVars>>

\* a request for any pk, stored or not
ExhibitsView ==
    /\ \E pk \in 1..(tables.seq.Category + 1) : response' = exhibits(tables, pk)
    /\ UNCHANGED <<tables, made, saveVars, counterVars>>

GetExhibitsCount ==
    /\ \E c \in tables.categories :
         response' = [NoResponse EXCEPT !.op = "get_exhibits_count", !.pk = c.pk,
                                        !.count = get_exhibits_count(tables, c.pk)]
    /\ UNCHANGED <<tables, made, saveVars, counterVars>>

PopulateDb ==
    /\ \E s \in handle(tables) :
         /\ tables' = s.tables
         /\ made' = MadeAfter(s.tables)
         /\ response' = [NoResponse EXCEPT !.op = "populate_db", !.error = s.error,
                                           !.categories = s.categories,
                                           !.empty_before = IsEmpty(tables)]
    /\ UNCHANGED <<saveVars, counterVars>>

\* the site starts with an empty database; no single entity is followed
InitSite ==
    /\ obj = NewEntity("Event", AbsentImage)
    /\ db = NoRow
    /\ norm = NoPolicy
    /\ last = [op |-> "init", update_fields |-> NoUpdateFields, policy |-> NoPolicy,
               before |-> AbsentImage, before_norm |-> NoPolicy,
               ops |-> <<>>, raised |-> FALSE]
    /\ SiteIdle
    /\ CounterIdle

NextSite ==
    \/ EventCreate
    \/ CategoryCreate
    \/ ExhibitCreate
    \/ MainView
    \/ ExhibitsView
    \/ GetExhibitsCount
    \/ PopulateDb

SpecSite == InitSite /\ [][NextSite]_vars

(* ---------------------------------------------------------------------- *)
(* Deletions                                                              *)
(* ---------------------------------------------------------------------- *)
\* a deletion that takes every exhibit with it
CascadeAll(all_exhibits, pk) == all_exhibits

\* on_delete=models.CASCADE: the exhibits whose category is the deleted one
Cascade(all_exhibits, pk) == {x \in all_exhibits : x.category = pk}

\* category.delete(): the exhibits collected by the cascade are deleted, then
\* the category
CategoryDelete ==
    /\ \E c \in tables.categories :
         LET collected == Cascade(tables.exhibits, c.pk)
         IN  /\ tables' = [tables EXCEPT !.categories = @ \ {c},
                                         !.exhibits = @ \ collected]
             /\ made' = [pk \in DOMAIN made \ {c.pk} |-> made[pk]]
             /\ response' = [NoResponse EXCEPT !.op = "delete_category", !.pk = c.pk,
                                               !.exhibits = {x.pk : x \in collected}]
    /\ UNCHANGED <<saveVars, counterVars>>

\* exhibit.delete()
ExhibitDelete ==
    /\ \E x \in tables.exhibits :
         /\ tables' = [tables EXCEPT !.exhibits = @ \ {x}]
         /\ made' = [made EXCEPT ![x.category] = @ - 1]
         /\ response' = [NoResponse EXCEPT !.op = "delete_exhibit", !.pk = x.pk,
                                           !.exhibits = {x.pk}]
    /\ UNCHANGED <<saveVars, counterVars>>

NextCascade ==
    \/ CategoryCreate
    \/ ExhibitCreate
    \/ CategoryDelete
    \/ ExhibitDelete
    \/ GetExhibitsCount

SpecCascade == InitSite /\ [][NextCascade]_vars

(* ---------------------------------------------------------------------- *)
(* One stored exhibit and the in-memory copies of it held by requests     *)
(* ---------------------------------------------------------------------- *)
NumCopies == 2
MaxCalls == 2
MaxFullSaves == 1
MaxStart == 1

Procs == 1..NumCopies

\* an instance read from the row: view_count is the stored number
Loaded(count) == [f |-> FALSE, n |-> count]

\* the exhibit of a copy as save sees it, and the row it is saved to
CopyEntity(view_count) ==
    [kind |-> "Exhibit",
     image |-> [create_test_image EXCEPT !.name = <<UploadTo("Exhibit")>> \o @,
                                         !.committed = TRUE],
     pk |-> TRUE, view_count |-> view_count]
CopyRow(count) ==
    [exists |-> TRUE, image |-> CopyEntity(Loaded(count)).image, view_count |-> count]

\* after a save the attribute still holds the expression it was assigned,
\* or the value read back from the row (the Django version decides)
AfterSave(view_count, count) ==
    IF view_count.f THEN {view_count, Loaded(count)} ELSE {view_count}

InitCounter ==
    /\ obj = NewEntity("Exhibit", AbsentImage)
    /\ db = NoRow
    /\ norm = NoPolicy
    /\ last = [op |-> "init", update_fields |-> NoUpdateFields, policy |-> NoPolicy,
               before |-> AbsentImage, before_norm |-> NoPolicy,
               ops |-> <<>>, raised |-> FALSE]
    /\ SiteIdle
    /\ stored \in 0..MaxStart
    /\ copies = [p \in Procs |-> [view_count |-> Loaded(stored), pc |-> "idle"]]
    /\ tally = [start |-> stored, started |-> 0, incs |-> 0, fulls |-> 0]

\* Exhibit.objects.get(pk=...) or refresh_from_db()
Load(p) ==
    /\ copies[p].pc = "idle"
    /\ copies' = [copies EXCEPT ![p].view_count = Loaded(stored)]
    /\ UNCHANGED <<stored, tally, saveVars, siteVars>>

\* increment_view_count, its first statement
IncrementAssign(p) ==
    /\ copies[p].pc = "idle"
    /\ tally.started < MaxCalls
    /\ copies' = [copies EXCEPT ![p].view_count = IncrementExpr(@),
                                ![p].pc = "assigned"]
    /\ tally' = [tally EXCEPT !.started = @ + 1]
    /\ UNCHANGED <<stored, saveVars, siteVars>>

\* increment_view_count, its second statement:
\* self.save(update_fields=["view_count"])
IncrementSave(p) ==
    /\ copies[p].pc = "assigned"
    /\ \E out \in ExhibitSaveOutcomes(CopyEntity(copies[p].view_count), CopyRow(stored),
                                      UpdateFields({"view_count"}), FALSE) :
         /\ stored' = out.db.view_count
         /\ \E after \in AfterSave(out.obj.view_count, out.db.view_count) :
              copies' = [copies EXCEPT ![p].view_count = after, ![p].pc = "idle"]
    /\ tally' = [tally EXCEPT !.incs = @ + 1]
    /\ UNCHANGED <<saveVars, siteVars>>

\* save() without update_fields of a copy loaded earlier: every field of the
\* copy is written, view_count among them
FullSave(p) ==
    /\ copies[p].pc = "idle"
    /\ tally.fulls < MaxFullSaves
    /\ \E out \in ExhibitSaveOutcomes(CopyEntity(copies[p].view_count), CopyRow(stored),
                                      NoUpdateFields, FALSE) :
         /\ stored' = out.db.view_count
         /\ \E after \in AfterSave(out.obj.view_count, out.db.view_count) :
              copies' = [copies EXCEPT ![p].view_count = after]
    /\ tally' = [tally EXCEPT !.fulls = @ + 1]
    /\ UNCHANGED <<saveVars, siteVars>>

NextCounter ==
    \/ \E p \in Procs : Load(p)
    \/ \E p \in Procs : IncrementAssign(p)
    \/ \E p \in Procs : IncrementSave(p)
    \/ \E p \in Procs : FullSave(p)

SpecCounter == InitCounter /\ [][NextCounter]_vars

(* ---------------------------------------------------------------------- *)
(* Properties                                                             *)
(* ---------------------------------------------------------------------- *)
Has(ops, step) == \E i \in DOMAIN ops : ops[i] = step

\* step a occurs in ops, and before every occurrence of step b
Precedes(ops, a, b) ==
    \E i \in DOMAIN ops : ops[i] = a /\ \A j \in DOMAIN ops : ops[j] = b => i < j

IsSave == last.op \in {"save", "increment_view_count"}
IsNormalize == last.op \in {"save", "increment_view_count", "resize_image"}
Wrote == Has(last.ops, "write")
Before == last.before.content
After == obj.image.content
ProcessingSteps == {"open", "load", "composite", "convert", "thumbnail", "encode", "write"}

\* C1: whenever resize_image writes an image back, for a decodable input and
\* any policy, the written image is no wider than max_width and no higher
\* than max_height.
C1_WithinBounds ==
    (IsNormalize /\ Before.decode = "ok" /\ Wrote)
        => /\ After.width <= last.policy.max_width
           /\ After.height <= last.policy.max_height
           /\ After.width >= 1
           /\ After.height >= 1

C1_Witness ==
    /\ IsNormalize /\ Wrote /\ Has(last.ops, "thumbnail")
    /\ Before.width > last.policy.max_width
    /\ Before.height <= last.policy.max_height
    /\ After.width = last.policy.max_width

\* C2: for an image that cannot be decoded or processed, resize_image raises
\* nothing and leaves the attribute with exactly the original bytes (and,
\* at its return, the original name); every normalisation ends either with
\* the JPEG bytes of the encoder or with the original bytes.
C2_PassThrough ==
    (IsNormalize /\ last.before # AbsentImage)
        => /\ ~last.raised
           /\ Before.decode # "ok" => ~Wrote
           /\ IF Wrote
              THEN After = [Before EXCEPT !.format = "JPEG", !.mode = After.mode,
                                          !.width = After.width, !.height = After.height,
                                          !.quality = last.policy.quality]
              ELSE /\ After = Before
                   /\ last.op = "resize_image" => obj.image = last.before

C2_Witness ==
    /\ last.op = "resize_image"
    /\ Before.decode = "truncated"
    /\ Has(last.ops, "open")
    /\ obj.image = last.before

\* C3: every save of an Event, Category or Exhibit with an image present
\* calls super().save and raises nothing, whether the normalisation wrote an
\* image or failed; a save without update_fields leaves the row stored with
\* the entity's image.
C3_SaveNeverBlocked ==
    (IsSave /\ last.before # AbsentImage)
        => /\ Has(last.ops, "super_save")
           /\ ~last.raised
           /\ ~last.update_fields.given => (db.exists /\ db.image = obj.image)

C3_Witness ==
    /\ last.op = "save"
    /\ Before.decode = "invalid"
    /\ Has(last.ops, "resize_image")
    /\ Has(last.ops, "super_save")
    /\ db.exists /\ db.image.content = Before

\* C4: whenever the normalisation writes an image, it is a JPEG in mode RGB,
\* whatever the format and mode of the input.
C4_JpegRgb ==
    (IsNormalize /\ Wrote)
        => /\ After.decode = "ok"
           /\ After.format = "JPEG"
           /\ After.mode = "RGB"

C4_Witness ==
    /\ IsNormalize /\ Wrote
    /\ Before.mode = "CMYK"
    /\ After.mode = "RGB"

\* a save that writes the image column has stored the normalised image
StoredNormalized ==
    (Wrote /\ Writes(last.update_fields, "image"))
        => /\ db.exists
           /\ db.image = obj.image
           /\ db.image.content.format = "JPEG"
           /\ db.image.content.quality = IMAGE_QUALITY
           /\ db.image.content.width <= MAX_IMAGE_WIDTH
           /\ db.image.content.height <= MAX_IMAGE_HEIGHT

NormalizedFirst ==
    /\ last.policy = SettingsPolicy
    /\ Precedes(last.ops, "resize_image", "super_save")
    /\ Has(last.ops, "super_save")
    /\ StoredNormalized

\* C5 as stated: every save with an image present runs the normalisation
\* with the settings' policy before the call of super().save.
C5_Original == (IsSave /\ last.before # AbsentImage) => NormalizedFirst

\* C5: every save with an image present, other than an Exhibit save whose
\* update_fields is exactly view_count, runs the normalisation on the
\* entity's image with the policy of the settings before it calls
\* super().save, and a save that writes the image column after a
\* normalisation that wrote stores the normalised image.
C5_NormalizedBeforePersist ==
    (IsSave /\ last.before # AbsentImage
        /\ ~(obj.kind = "Exhibit" /\ last.update_fields = UpdateFields({"view_count"})))
        => NormalizedFirst

C5_Witness ==
    /\ last.op = "save" /\ Wrote
    /\ Before = ImageBytes("PNG", "RGBA", 3000, 2000)
    /\ ~last.before.committed
    /\ db.exists /\ db.image.content = EncodeJpeg("RGB", <<1920, 1280>>, 85)

\* C6: with the image attribute absent, a save or a call of resize_image
\* performs no decoding, conversion, resizing, encoding or writing, raises
\* nothing and leaves the attribute absent.
C6_AbsentNoOp ==
    (IsNormalize /\ last.before = AbsentImage)
        => /\ \A i \in DOMAIN last.ops : last.ops[i] \notin ProcessingSteps
           /\ ~last.raised
           /\ obj.image = AbsentImage

C6_Witness ==
    /\ last.op = "save"
    /\ last.before = AbsentImage
    /\ last.ops = <<"super_save">>
    /\ db.exists /\ db.image = AbsentImage

\* C7: a decodable image that is within the bounds of the policy keeps its
\* width and height, and is not resized.
C7_NeverUpscales ==
    (IsNormalize /\ Before.decode = "ok"
        /\ Before.width <= last.policy.max_width
        /\ Before.height <= last.policy.max_height)
        => /\ After.width = Before.width
           /\ After.height = Before.height
           /\ ~Has(last.ops, "thumbnail")

C7_Witness ==
    /\ IsNormalize /\ Wrote
    /\ Before.width < last.policy.max_width
    /\ Before.height < last.policy.max_height
    /\ After.width = Before.width /\ After.height = Before.height

\* the size ow x oh is the size w x h scaled, one side exactly and the other
\* less than one pixel off
WithinOnePixel(w, h, ow, oh) ==
    \/ Abs(ow * h - oh * w) < h
    \/ Abs(oh * w - ow * h) < w

\* C8: an image wider than max_width or higher than max_height is written
\* with its aspect ratio kept within one pixel of rounding; 3000x2000 under
\* the policy 1920x1920 is written as 1920x1280.
C8_AspectRatio ==
    (IsNormalize /\ Wrote
        /\ (Before.width > last.policy.max_width \/ Before.height > last.policy.max_height))
        => /\ WithinOnePixel(Before.width, Before.height, After.width, After.height)
           /\ (After.width = last.policy.max_width \/ After.height = last.policy.max_height)
           /\ (Before.width = 3000 /\ Before.height = 2000
                  /\ last.policy.max_width = 1920 /\ last.policy.max_height = 1920)
                 => (After.width = 1920 /\ After.height = 1280)

C8_Witness ==
    /\ IsNormalize /\ Wrote
    /\ Before.width = 3000 /\ Before.height = 2000
    /\ last.policy.max_width = 1920 /\ last.policy.max_height = 1920
    /\ After.width = 1920 /\ After.height = 1280

\* C9: normalising an image that a normalisation under the same policy
\* produced leaves its width, height and mode as they are.
C9_Idempotent ==
    (IsNormalize /\ last.policy # NoPolicy /\ last.before_norm = last.policy)
        => /\ After.width = Before.width
           /\ After.height = Before.height
           /\ After.mode = Before.mode

C9_Witness ==
    /\ IsNormalize /\ Wrote
    /\ last.before_norm = last.policy
    /\ last.policy.max_width < MAX_IMAGE_WIDTH
    /\ After.width = Before.width /\ After.height = Before.height
    /\ After.mode = Before.mode

\* C10: an Exhibit save whose update_fields is exactly view_count, as
\* increment_view_count issues it, calls super().save and nothing else: no
\* step of the normalisation runs and the image attribute is unchanged.
C10_ViewCountBypass ==
    (IsSave /\ obj.kind = "Exhibit" /\ last.update_fields = UpdateFields({"view_count"}))
        => /\ last.ops = <<"super_save">>
           /\ ~last.raised
           /\ obj.image = last.before

C10_Witness ==
    /\ last.op = "increment_view_count"
    /\ last.before # AbsentImage
    /\ ~last.before.committed
    /\ last.ops = <<"super_save">>
    /\ db.view_count = 1
    /\ obj.image = last.before

\* C11 as stated: a normalisation of an image that is already stored leaves
\* the file name of the attribute as it was.
C11_NameKept ==
    (IsNormalize /\ last.before # AbsentImage /\ last.before.committed)
        => obj.image.name = last.before.name

\* C16 as stated: the composite uses the alpha band as the mask for the
\* modes RGBA and LA, and no mask for the mode P.
C16_AlphaMask ==
    (IsNormalize /\ Has(last.ops, "composite"))
        => /\ Before.mode \in {"RGBA", "LA"} => Has(last.ops, "alpha")
           /\ Before.mode = "P" => Has(last.ops, "none")

\* a save restricted to a non-empty set of fields without the image, of an
\* entity that has an image
IsPartialUpdate ==
    /\ IsSave
    /\ last.update_fields.given
    /\ last.update_fields.fields # {}
    /\ "image" \notin last.update_fields.fields
    /\ last.before # AbsentImage

\* C17 as stated: every save restricted to a non-empty set of fields without
\* the image skips the normalisation and leaves the image attribute alone.
C17_Original ==
    IsPartialUpdate => (~Has(last.ops, "resize_image") /\ obj.image = last.before)

\* C17: of the saves restricted to a non-empty set of fields without the
\* image, exactly the Exhibit save whose update_fields is view_count alone
\* skips the normalisation and leaves the image attribute (bytes and name)
\* unchanged; every other one, on Event, Category or Exhibit, runs it.
C17_PartialUpdate ==
    IsPartialUpdate
        => IF obj.kind = "Exhibit" /\ last.update_fields.fields = {"view_count"}
           THEN ~Has(last.ops, "resize_image") /\ obj.image = last.before
           ELSE Has(last.ops, "resize_image") /\ Has(last.ops, "open")

C17_Witness ==
    /\ IsPartialUpdate
    /\ last.op = "save"
    /\ obj.kind = "Exhibit"
    /\ last.update_fields.fields = {"view_count"}
    /\ last.before.committed
    /\ last.ops = <<"super_save">>
    /\ obj.image = last.before
(* ---------------------------------------------------------------------- *)
(* The stored site                                                        *)
(* ---------------------------------------------------------------------- *)
\* C12: the events the main view puts in its context are exactly the stored
\* events with is_active true, and none with is_active false.
C12_ActiveEvents ==
    response.op = "main"
        => /\ \A e \in tables.events : (e.pk \in response.events) <=> e.is_active
           /\ response.events \subseteq {e.pk : e \in tables.events}

C12_Witness ==
    /\ response.op = "main"
    /\ \E e \in tables.events : e.is_active /\ e.pk \in response.events
    /\ \E e \in tables.events : ~e.is_active /\ e.pk \notin response.events

\* C13: for an existing category pk the exhibits view lists exactly the
\* exhibits whose category is pk, and no exhibit of another category.
C13_ExhibitsOfCategory ==
    (response.op = "exhibits" /\ \E c \in tables.categories : c.pk = response.pk)
        => /\ response.status = 200
           /\ \A x \in tables.exhibits :
                (x.pk \in response.exhibits) <=> (x.category = response.pk)
           /\ response.exhibits \subseteq {x.pk : x \in tables.exhibits}

C13_Witness ==
    /\ response.op = "exhibits"
    /\ \E c \in tables.categories : c.pk = response.pk
    /\ \E x \in tables.exhibits : x.category = response.pk /\ x.pk \in response.exhibits
    /\ \E x \in tables.exhibits : x.category # response.pk /\ x.pk \notin response.exhibits

\* C14: for a pk that matches no stored category the exhibits view responds
\* 404 and renders no category and no exhibit list.
C14_NotFound ==
    (response.op = "exhibits" /\ ~\E c \in tables.categories : c.pk = response.pk)
        => /\ response.status = 404
           /\ response.exhibits = {}
           /\ response.categories = {}

C14_Witness ==
    /\ response.op = "exhibits"
    /\ response.status = 404
    /\ tables.exhibits # {}
    /\ ~\E c \in tables.categories : c.pk = response.pk

\* C15: get_exhibits_count of a category is the number of exhibits created
\* in it: 0 for a fresh category, one more per exhibit created in it,
\* whatever was created in other categories.
C15_ExhibitsCount ==
    response.op = "get_exhibits_count"
        => /\ response.pk \in DOMAIN made
           /\ response.count = made[response.pk]
           /\ response.count
                = Cardinality({x \in tables.exhibits : x.category = response.pk})

C15_Witness ==
    /\ response.op = "get_exhibits_count"
    /\ response.count = 1
    /\ \E x \in tables.exhibits : x.category # response.pk

\* C18 as stated: populate_db on an empty database ends without error and
\* leaves 5 categories, 5 events and 5 exhibits, each exhibit in one of the
\* created categories, with titles and slugs unique.
C18_PopulateDb ==
    (response.op = "populate_db" /\ response.empty_before)
        => /\ response.error = ""
           /\ Cardinality(tables.categories) = Len(category_names)
           /\ Cardinality(tables.events) = NumDemoEvents
           /\ Cardinality(tables.exhibits) = Len(exhibit_titles)
           /\ \A x \in tables.exhibits : x.category \in response.categories
           /\ \A c, d \in tables.categories :
                (c.title = d.title \/ c.slug = d.slug) => c = d

(* ---------------------------------------------------------------------- *)
(* The view counter under concurrency                                     *)
(* ---------------------------------------------------------------------- *)
\* C19: as long as only increment_view_count has written the exhibit, the
\* stored view_count is its starting value plus the number of completed
\* calls, in every interleaving and from every copy, stale or not.
C19_NoLostUpdate ==
    tally.fulls = 0 => stored = tally.start + tally.incs

C19_Witness ==
    /\ tally.fulls = 0
    /\ tally.incs = 2
    /\ stored = tally.start + 2
    /\ \E p \in Procs : ~copies[p].view_count.f /\ copies[p].view_count.n < stored

\* C20 as stated: the stored view_count never decreases and changes only
\* through increment_view_count, by exactly 1 per call, also when full saves
\* of copies loaded earlier interleave with the calls.
C20_OnlyIncrements ==
    [][/\ stored' >= stored
       /\ stored' # stored
            => (stored' = stored + 1 /\ tally'.incs = tally.incs + 1)]_vars

(* ---------------------------------------------------------------------- *)
(* Deletions                                                              *)
(* ---------------------------------------------------------------------- *)
\* C21: over creations and deletions of categories and exhibits, every
\* stored exhibit references a stored category, and the deletion of a
\* category removes that category, every exhibit of it and no exhibit of
\* another category.
C21_CascadeDelete ==
    [][/\ \A x \in tables'.exhibits : \E c \in tables'.categories : c.pk = x.category
       /\ response'.op = "delete_category"
            => /\ tables'.categories = {c \in tables.categories : c.pk # response'.pk}
               /\ tables'.exhibits
                    = {x \in tables.exhibits : x.category # response'.pk}]_vars

C21_Witness ==
    /\ response.op = "delete_category"
    /\ response.exhibits # {}
    /\ tables.exhibits # {}
    /\ tables.categories # {}
    /\ \A x \in tables.exhibits : x.category # response.pk
====
